---- MODULE Spec2Model ----
(***************************************************************************)
(* Sweep orchestration of softlab (softlab/huo/process/common.py): the     *)
(* atomic job (AtomJob), the sweep job (AtomJobSweeper) and its three      *)
(* strategies Counter, Scanner and GridScanner.                            *)
(*                                                                         *)
(* One sweep job and its child AtomJob are modelled.  Which strategy the   *)
(* job is, and how it is configured, is chosen in Init.  The fields are    *)
(* those the constructors assign; whether a constructor call gets that far *)
(* is a matter of the constructors themselves (parse_* helpers, the getter *)
(* loop of AtomJob.__init__, the lambdas of GridScanner.__init__), which   *)
(* is not part of the run protocol modelled here.                          *)
(*                                                                         *)
(* Python mappings (ValueDict) are functions over a set of string keys;    *)
(* Python lists are sequences, so list position p is element p + 1.        *)
(***************************************************************************)
EXTENDS Integers, Sequences, FiniteSets, TLC

\* ------------------------------------------------------------ bounds
MaxTimes == 3
MaxLen == 3
MaxAxes == 2
MaxAxisLen == 2
MaxRuns == 2
MaxCalls == 3
MaxOutside == 1

\* ------------------------------------------------------------ values
Empty == [k \in {} |-> 0]

\* dict literal with one item, and with two
Dict1(k, v) == [a \in {k} |-> v]

Dict2(k1, v1, k2, v2) == [a \in {k1, k2} |-> IF a = k1 THEN v1 ELSE v2]

\* the mappings a Scanner list is drawn from: "x" is the setter key, "y" is a
\* key the child has no attribute for
ValueDicts == {Empty, Dict1("x", 1), Dict2("x", 2, "y", 7)}

ValueLists == UNION {[1..n -> ValueDicts] : n \in 1..MaxLen}

\* axis keys of the grids, and the candidates of an axis of length n: candidate
\* p of axis a is 10 * a + p, so that every candidate of a grid is distinct
AxisKey == <<"x", "y", "z", "w">>

Axis(a, n) == <<AxisKey[a], [p \in 1..n |-> 10 * a + p]>>

Grids == UNION {{[a \in 1..m |-> Axis(a, l[a])] : l \in [1..m -> 1..MaxAxisLen]} : m \in 1..MaxAxes}

\* the sweep job's own delay attributes (AtomJobSweeper.__init__ stores each
\* delay argument, or 0.0 for a negative or wrong-typed one)
SweepConfigs ==
    {[t0 |-> 0, delay_begin |-> 0, delay_after_set |-> 0, delay_gap |-> 0, delay_end |-> 0],
     [t0 |-> 5, delay_begin |-> 1, delay_after_set |-> 4, delay_gap |-> 2, delay_end |-> 3]}

\* value a hardware parameter holds before any write
ParaInit == 0

VARIABLES
    kind,            \* "Counter" | "Scanner" | "GridScanner"
    times,           \* Counter attribute times
    values,          \* Scanner._values
    grid,            \* GridScanner._grid
    shape,           \* GridScanner._shape
    index,           \* Counter._index / Scanner._index
    gindex,          \* GridScanner._index (one digit per axis and the carry-out digit)
    t0,              \* sweep job attribute
    delay_begin,     \* sweep job attribute
    delay_after_set, \* sweep job attribute
    delay_gap,       \* sweep job attribute
    delay_end,       \* sweep job attribute
    sweeping,        \* AtomJobSweeper._sweeping
    job,             \* the child AtomJob's attributes t0, delay_begin, delay_after_set, delay_end, is_dryrun
    attrs,           \* the child's mirrored setter attributes, key -> value
    getters,         \* the child's _getters: getter key -> the parameter it is bound to
    params,          \* the hardware parameters, name -> value
    now,             \* the clock, in seconds
    record,          \* the child's _record: bound or not, and its rows
    pc,              \* position of the run loop / of AtomJob.body
    local,           \* locals of the running body: dryrun, values, and what it did so far
    op,              \* the last operation performed
    result,          \* outcome of the last adaptive() call
    results,         \* outcomes of the adaptive() calls since the last reset()
    advances,        \* the advance calls of the current run
    passes,          \* the child passes of the current run
    rows0,           \* number of rows of the record when the current run started
    runs,            \* runs started
    calls,           \* direct calls of reset() / adaptive() made
    new,             \* the constructor call that makes the job: its arguments, how far it
                     \* got, the error it raised
    outside          \* what came from outside the run (an assignment to a property of the
                     \* job, a parameter that fails): how many, and of the last one the
                     \* property, the value and the error raised

vars == <<kind, times, values, grid, shape, index, gindex, t0, delay_begin,
          delay_after_set, delay_gap, delay_end, sweeping, job, attrs, getters, params,
          now, record, pc, local, op, result, results, advances, passes, rows0, runs,
          calls, new, outside>>

\* what no operation on a constructed job writes
fixed == <<kind, times, shape, t0, delay_begin, delay_after_set, delay_gap, delay_end,
           getters, new>>

\* what no operation of a run writes
config == <<fixed, values, grid>>

\* what an assignment to a property of the job leaves alone, the record aside
running == <<sweeping, job, attrs, params, now, pc, local, result, results, advances,
             passes, rows0, runs, calls>>

\* ------------------------------------------------------------ construction
\* keys of the child's setter attributes
SetterKeys(k, g) ==
    CASE k = "Counter" -> {}
      [] k = "Scanner" -> {"x"}
      [] k = "GridScanner" -> {g[a][1] : a \in 1..Len(g)}

\* parse_setters_with_values: the initial value of a setter is values[key] when
\* the mapping has the key, else the parameter's current value
InitialValue(key, vals) == IF key \in DOMAIN vals THEN vals[key] ELSE ParaInit

\* the mapping GridScanner.__init__ seeds the setters from: axis key -> first candidate
FirstCandidates(g) == [k \in {g[a][1] : a \in 1..Len(g)} |->
                          LET a == CHOOSE b \in 1..Len(g) :
                                      /\ g[b][1] = k
                                      /\ \A c \in 1..Len(g) : g[c][1] = k => c <= b
                          IN g[a][2][1]]

NoResult == [raised |-> FALSE, values |-> Empty]

NoOutside == [n |-> 0, property |-> "", value |-> <<>>, raised |-> ""]

\* a constructor call that has returned the job
Constructed == [stage |-> "built", raised |-> "", created |-> {"child", "attributes", "cursor"}]

NoLocal == [delay_begin |-> 0, dryrun |-> FALSE, values |-> Empty, recorded |-> FALSE,
            waits |-> <<>>]

\* name of the parameter the getter is for
GetterKey == "g"

\* AtomJob.__init__, getter loop: key = str(getter[0]); para = setter[1];
\* self._getters[key] = para.  The parameter stored is not the getter's own
\* but the one of the last setter binding.
GetterBinding(lastsetter) == Dict1(GetterKey, lastsetter)

InitCommon ==
    /\ \E c \in SweepConfigs :
          /\ t0 = c.t0
          /\ delay_begin = c.delay_begin
          \* Counter.__init__ passes no delay_after_set on: the default 0.0 is stored
          /\ delay_after_set = IF kind = "Counter" THEN 0 ELSE c.delay_after_set
          /\ delay_gap = c.delay_gap
          /\ delay_end = c.delay_end
    /\ sweeping = FALSE
    /\ job = [t0 |-> 0, delay_begin |-> 0, delay_after_set |-> delay_after_set,
              delay_end |-> 0, is_dryrun |-> FALSE]
    /\ record = [bound |-> FALSE, rows |-> <<>>, columns |-> {}]
    /\ pc = "idle"
    /\ now = 0
    /\ local = NoLocal
    /\ op = "init"
    /\ result = NoResult
    /\ results = <<>>
    /\ advances = <<>>
    /\ passes = <<>>
    /\ rows0 = 0
    /\ runs = 0
    /\ calls = 0
    /\ new = Constructed
    /\ outside = NoOutside

InitCounter ==
    /\ kind = "Counter"
    /\ times \in 1..MaxTimes
    /\ index = 0
    /\ values = <<>> /\ grid = <<>> /\ shape = <<>> /\ gindex = <<>>
    /\ attrs = Empty
    \* with no setter binding the getter loop has no setter to read; the getter
    \* is taken with its own parameter
    /\ getters = Dict1(GetterKey, GetterKey)
    /\ params = Dict1(GetterKey, ParaInit)

InitScanner ==
    /\ kind = "Scanner"
    /\ values \in ValueLists
    /\ index = 0
    /\ times = 1 /\ grid = <<>> /\ shape = <<>> /\ gindex = <<>>
    /\ attrs = [k \in SetterKeys("Scanner", <<>>) |-> InitialValue(k, values[1])]
    /\ getters = GetterBinding("x")
    /\ params = [k \in SetterKeys("Scanner", <<>>) \cup {GetterKey} |-> ParaInit]

InitGridScanner ==
    /\ kind = "GridScanner"
    /\ grid \in Grids
    /\ shape = [a \in 1..Len(grid) |-> Len(grid[a][2])]
    /\ gindex = [a \in 1..(Len(grid) + 1) |-> 0]
    /\ times = 1 /\ values = <<>> /\ index = 0
    /\ attrs = [k \in SetterKeys("GridScanner", grid) |-> InitialValue(k, FirstCandidates(grid))]
    /\ getters = GetterBinding(grid[Len(grid)][1])
    /\ params = [k \in SetterKeys("GridScanner", grid) \cup {GetterKey} |-> ParaInit]

Init == (InitCounter \/ InitScanner \/ InitGridScanner) /\ InitCommon

\* ------------------------------------------------------------ strategies
\* Counter.reset / Scanner.reset
ScalarReset == 0

\* GridScanner.reset: every digit of the position vector, the carry-out digit
\* included, is set to 0 in place
GridReset(idx) == [a \in 1..Len(idx) |-> 0]

\* mutant of Counter.adaptive: the bound is tested with <= instead of <
CounterAdaptive_OffByOne(idx, t) ==
    IF idx <= t
    THEN [index |-> idx + 1, values |-> Dict1("running", TRUE), raised |-> FALSE]
    ELSE [index |-> idx, values |-> Empty, raised |-> FALSE]

\* Counter.adaptive
CounterAdaptive(idx, t) ==
    IF idx < t
    THEN [index |-> idx + 1, values |-> Dict1("running", TRUE), raised |-> FALSE]
    ELSE [index |-> idx, values |-> Empty, raised |-> FALSE]

\* mutant of Scanner.adaptive: the index is advanced by two
ScannerAdaptive_SkipOne(idx, vals) ==
    IF idx < Len(vals)
    THEN [index |-> idx + 2, values |-> vals[idx + 1], raised |-> FALSE]
    ELSE [index |-> idx, values |-> Empty, raised |-> FALSE]

\* Scanner.adaptive
ScannerAdaptive(idx, vals) ==
    IF idx < Len(vals)
    THEN [index |-> idx + 1, values |-> vals[idx + 1], raised |-> FALSE]
    ELSE [index |-> idx, values |-> Empty, raised |-> FALSE]

\* GridScanner.adaptive, first loop: values[grid[i][0]] = grid[i][1][index[i]]
\* for i in range(len(grid)); a later axis with the same key overwrites
GridValues(g, idx) ==
    [k \in {g[a][1] : a \in 1..Len(g)} |->
        LET a == CHOOSE b \in 1..Len(g) :
                    /\ g[b][1] = k
                    /\ \A c \in 1..Len(g) : g[c][1] = k => c <= b
        IN g[a][2][idx[a] + 1]]

\* whether the first loop reads inside every list it indexes
GridValuesInRange(g, idx) ==
    /\ Len(g) <= Len(idx)
    /\ \A a \in 1..Len(g) : idx[a] + 1 \in 1..Len(g[a][2])

\* GridScanner.adaptive, second loop, from list position i - 1 on:
\*     for i in range(len(index)):
\*         index[i] += 1
\*         if index[i] < shape[i]: break
\*         index[i] = 0
\* shape has one entry per axis and none for the carry-out digit: reading
\* shape[i] past its end raises IndexError, after index[i] was incremented
RECURSIVE GridCarry(_, _, _)
RECURSIVE GridCarry_NoWrap(_, _, _)
\* mutant of the second loop: a digit that reached its axis length is not set
\* back to 0 before the carry moves on
GridCarry_NoWrap(idx, shp, i) ==
    IF i > Len(idx)
    THEN [index |-> idx, raised |-> FALSE]
    ELSE LET inc == [idx EXCEPT ![i] = @ + 1]
         IN IF i > Len(shp)
            THEN [index |-> inc, raised |-> TRUE]
            ELSE IF inc[i] < shp[i]
                 THEN [index |-> inc, raised |-> FALSE]
                 ELSE GridCarry_NoWrap(inc, shp, i + 1)

GridCarry(idx, shp, i) ==
    IF i > Len(idx)
    THEN [index |-> idx, raised |-> FALSE]
    ELSE LET inc == [idx EXCEPT ![i] = @ + 1]
         IN IF i > Len(shp)
            THEN [index |-> inc, raised |-> TRUE]
            ELSE IF inc[i] < shp[i]
                 THEN [index |-> inc, raised |-> FALSE]
                 ELSE GridCarry([inc EXCEPT ![i] = 0], shp, i + 1)

\* mutant of GridScanner.adaptive: a call on an exhausted grid rewinds the cursor
GridAdaptive_Rewind(idx, g, shp) ==
    IF idx[Len(idx)] = 0
    THEN IF ~GridValuesInRange(g, idx)
         THEN [index |-> idx, values |-> Empty, raised |-> TRUE]
         ELSE LET c == GridCarry(idx, shp, 1)
              IN [index |-> c.index,
                  values |-> IF c.raised THEN Empty ELSE GridValues(g, idx),
                  raised |-> c.raised]
    ELSE [index |-> GridReset(idx), values |-> Empty, raised |-> FALSE]

\* GridScanner.adaptive
GridAdaptive(idx, g, shp) ==
    IF idx[Len(idx)] = 0
    THEN IF ~GridValuesInRange(g, idx)
         THEN [index |-> idx, values |-> Empty, raised |-> TRUE]
         ELSE LET c == GridCarry(idx, shp, 1)
              IN [index |-> c.index,
                  values |-> IF c.raised THEN Empty ELSE GridValues(g, idx),
                  raised |-> c.raised]
    ELSE [index |-> idx, values |-> Empty, raised |-> FALSE]

\* self.adaptive(record) of the job at hand: the new cursor, and the mapping
\* returned or the fact that the call raised
Adaptive ==
    CASE kind = "Counter" ->
            LET r == CounterAdaptive(index, times)
            IN [index |-> r.index, gindex |-> gindex, values |-> r.values, raised |-> r.raised]
      [] kind = "Scanner" ->
            LET r == ScannerAdaptive(index, values)
            IN [index |-> r.index, gindex |-> gindex, values |-> r.values, raised |-> r.raised]
      [] kind = "GridScanner" ->
            LET r == GridAdaptive(gindex, grid, shape)
            IN [index |-> index, gindex |-> r.index, values |-> r.values, raised |-> r.raised]

\* the effect of one adaptive() call on the cursor, with its outcome logged
adaptive ==
    /\ index' = Adaptive.index
    /\ gindex' = Adaptive.gindex
    /\ result' = [raised |-> Adaptive.raised, values |-> Adaptive.values]
    /\ results' = Append(results, result')

\* the effect of one reset() call on the cursor
reset ==
    /\ index' = IF kind = "GridScanner" THEN index ELSE ScalarReset
    /\ gindex' = IF kind = "GridScanner" THEN GridReset(gindex) ELSE gindex
    /\ result' = NoResult
    /\ results' = <<>>

\* ------------------------------------------------------------ AtomJob.body
\* A pass is cut at its suspension points (the awaits of body).  The clock
\* advances by the waits; datetime.now() reads it.
\* dict update: the items of g added to f
Update(f, g) == [k \in DOMAIN f \cup DOMAIN g |-> IF k \in DOMAIN g THEN g[k] ELSE f[k]]

\* mutant of the wait: a delay of up to a second is not waited for
Sleep_LongOnly(waits, point, delay) == IF delay > 1 THEN Append(waits, <<point, delay>>) ELSE waits

\* if delay > 0.0: await asyncio.sleep(delay): the waits done so far, with this one
Sleep(waits, point, delay) == IF delay > 0 THEN Append(waits, <<point, delay>>) ELSE waits

\* the time such a wait takes
Slept(delay) == IF delay > 0 THEN delay ELSE 0

\* delay = self.delay_begin(); await asyncio.sleep(delay) when delay > 0
BodyBeginWait ==
    /\ pc = "pass_begin"
    /\ local' = [NoLocal EXCEPT !.delay_begin = job.delay_begin,
                                !.waits = Sleep(<<>>, "delay_begin", job.delay_begin)]
    /\ now' = now + Slept(job.delay_begin)
    /\ pc' = "pass_set"
    /\ op' = "body"
    /\ UNCHANGED <<config, outside, index, gindex, sweeping, job, attrs, params, record, result,
                   results, advances, passes, rows0, runs, calls>>

\* mutant of the setter loop's guard: not dryrun is left out
BodySets_IgnoreDryrun(at, dryrun) == DOMAIN at # {}

\* whether the setter loop runs: len(self._setters) > 0 and not dryrun
BodySets(at, dryrun) == DOMAIN at # {} /\ ~dryrun

\* the values captured by the setter loop: para(attr()); values[key] = attr()
BodySetValues(dryrun, at) == IF BodySets(at, dryrun) THEN at ELSE Empty

\* values = {'timestamp': now - t0}; dryrun = self.is_dryrun(); the setter
\* loop; then the wait of delay_after_set
BodySet ==
    /\ pc = "pass_set"
    /\ local' = [local EXCEPT
                    !.dryrun = job.is_dryrun,
                    !.values = Update(Dict1("timestamp", now - job.t0),
                                      BodySetValues(job.is_dryrun, attrs)),
                    !.waits = IF BodySets(attrs, job.is_dryrun)
                              THEN Sleep(@, "delay_after_set", job.delay_after_set)
                              ELSE @]
    /\ params' = IF BodySets(attrs, job.is_dryrun) THEN Update(params, attrs) ELSE params
    /\ now' = IF BodySets(attrs, job.is_dryrun) THEN now + Slept(job.delay_after_set) ELSE now
    /\ pc' = "pass_get"
    /\ op' = "body"
    /\ UNCHANGED <<config, outside, index, gindex, sweeping, job, attrs, record, result,
                   results, advances, passes, rows0, runs, calls>>

\* mutant of the getter loop: the parameters are read as they were before the
\* setter loop wrote them
BodyGetValues_ReadFirst(dryrun, gt, pm) ==
    IF DOMAIN gt # {} /\ ~dryrun THEN [k \in DOMAIN gt |-> ParaInit] ELSE Empty

\* the values read by the getter loop: values[key] = para()
BodyGetValues(dryrun, gt, pm) ==
    IF DOMAIN gt # {} /\ ~dryrun THEN [k \in DOMAIN gt |-> pm[gt[k]]] ELSE Empty

\* whether body appends its row: isinstance(self._record, DataRecord) and not dryrun
BodyRecords(rec, dryrun) == rec.bound /\ ~dryrun

\* DataRecord.add_rows: the row as a record with these columns holds it
RowStored(rec, row) == [k \in DOMAIN row \cap rec.columns |-> row[k]]

\* the getter loop and self._record.add_rows(values)
BodyGet ==
    LET row == Update(local.values, BodyGetValues(local.dryrun, getters, params))
    IN /\ pc = "pass_get"
       /\ record' = IF BodyRecords(record, local.dryrun)
                     THEN [record EXCEPT !.rows = Append(@, RowStored(record, row))]
                     ELSE record
       /\ local' = [local EXCEPT !.values = row,
                                 !.recorded = BodyRecords(record, local.dryrun)]
       /\ pc' = "pass_end"
       /\ op' = "body"
       /\ UNCHANGED <<config, outside, index, gindex, sweeping, job, attrs, params, now, result,
                      results, advances, passes, rows0, runs, calls>>

\* delay = self.delay_end(); await asyncio.sleep(delay) when delay > 0: the pass
\* is complete
BodyEndWait ==
    /\ pc = "pass_end"
    /\ passes' = Append(passes, [delay_begin |-> local.delay_begin,
                                  is_dryrun |-> local.dryrun,
                                  recorded |-> local.recorded,
                                  values |-> local.values,
                                  delay_end |-> job.delay_end,
                                  waits |-> Sleep(local.waits, "delay_end", job.delay_end)])
    /\ now' = now + Slept(job.delay_end)
    /\ local' = NoLocal
    /\ pc' = "advance"
    /\ op' = "body"
    /\ UNCHANGED <<config, outside, index, gindex, sweeping, job, attrs, params, record, result,
                   results, advances, rows0, runs, calls>>

\* ------------------------------------------------------------ AtomJobSweeper
\* mutant of reset_sweep: self.child.is_dryrun(False) is left out
ResetJob_KeepDryrun(j) == [j EXCEPT !.t0 = t0,
                                    !.delay_begin = delay_begin,
                                    !.delay_after_set = delay_after_set,
                                    !.delay_end = 0]

\* mutant of reset_sweep: self.child.delay_begin(self.delay_begin()) is left out
ResetJob_KeepDelayBegin(j) == [j EXCEPT !.t0 = t0,
                                        !.delay_after_set = delay_after_set,
                                        !.delay_end = 0,
                                        !.is_dryrun = FALSE]

\* AtomJobSweeper.reset_sweep: what it writes to the child and to _sweeping
ResetJob(j) == [j EXCEPT !.t0 = t0,
                         !.delay_begin = delay_begin,
                         !.delay_after_set = delay_after_set,
                         !.delay_end = 0,
                         !.is_dryrun = FALSE]

\* mutant of reset_sweep: self._sweeping = False is left out
reset_sweep_KeepSweeping ==
    /\ job' = ResetJob(job)
    /\ sweeping' = sweeping
    /\ reset

reset_sweep ==
    /\ job' = ResetJob(job)
    /\ sweeping' = FALSE
    /\ reset

\* perform_sweep, productive branch: for key, value in values.items(): the
\* child's attribute of that key, when it has one that is a LimitedAttribute,
\* is written
\* mutant of the productive branch: a key the child has no attribute for gets one
ApplyValues_AddKeys(at, vals) ==
    [k \in DOMAIN at \cup DOMAIN vals |-> IF k \in DOMAIN vals THEN vals[k] ELSE at[k]]

ApplyValues(at, vals) ==
    [k \in DOMAIN at |-> IF k \in DOMAIN vals THEN vals[k] ELSE at[k]]

\* perform_sweep, productive branch: the child's delay_begin
ProductiveJob(j, sw) == IF sw THEN [j EXCEPT !.delay_begin = delay_gap] ELSE j

\* mutant of the empty branch: job.delay_end(self.delay_end()) is left out
DrainJob_NoDelayEnd(j) == [j EXCEPT !.delay_begin = 0, !.is_dryrun = TRUE]

\* perform_sweep, empty branch: the child is configured for the drain pass
DrainJob(j) == [j EXCEPT !.delay_begin = 0, !.delay_end = delay_end, !.is_dryrun = TRUE]

\* mutant of perform_sweep: the early return is also taken once sweeping is set
Branch_StopWhenSweeping(j, r) ==
    IF j.is_dryrun \/ sweeping THEN "stop"
    ELSE IF r.raised THEN "raised"
    ELSE IF DOMAIN r.values # {} THEN "productive"
    ELSE "drain"

\* which branch perform_sweep takes
Branch(j, r) ==
    IF j.is_dryrun THEN "stop"
    ELSE IF r.raised THEN "raised"
    ELSE IF DOMAIN r.values # {} THEN "productive"
    ELSE "drain"

\* AtomJobSweeper.perform_sweep(job); ret is what it returns
perform_sweep(ret) ==
    LET b == Branch(job, Adaptive)
    IN /\ advances' = Append(advances, [branch |-> b, values |-> IF b = "productive"
                                                                  THEN Adaptive.values
                                                                  ELSE Empty])
       /\ IF b = "stop"
          THEN /\ ret = "False"
               /\ UNCHANGED <<index, gindex, result, results, job, attrs, sweeping>>
          ELSE /\ adaptive
               /\ CASE b = "raised" ->
                          /\ ret = "raised"
                          /\ UNCHANGED <<job, attrs, sweeping>>
                    [] b = "productive" ->
                          /\ ret = "True"
                          /\ attrs' = ApplyValues(attrs, Adaptive.values)
                          /\ job' = ProductiveJob(job, sweeping)
                          /\ sweeping' = TRUE
                    [] b = "drain" ->
                          /\ ret = "True"
                          /\ job' = DrainJob(job)
                          /\ UNCHANGED <<attrs, sweeping>>

\* ------------------------------------------------------------ the run loop
Quiescent == pc \in {"idle", "done", "error"}

\* a run starts: the sweeper is reset, then the child runs its first pass
RunStart ==
    /\ Quiescent
    /\ runs < MaxRuns
    /\ reset_sweep
    /\ pc' = "pass_begin"
    /\ op' = "reset_sweep"
    /\ advances' = <<>>
    /\ passes' = <<>>
    /\ rows0' = Len(record.rows)
    /\ runs' = runs + 1
    /\ local' = NoLocal
    /\ UNCHANGED <<config, outside, attrs, params, now, record, calls>>

\* where the loop goes after advance(child): run the child again, stop, or let
\* the error out
LoopNext(ret) ==
    CASE ret = "True" -> "pass_begin"
      [] ret = "False" -> "done"
      [] ret = "raised" -> "error"

\* after each completed child pass the loop calls advance(child)
Advance ==
    /\ pc = "advance"
    /\ \E ret \in {"True", "False", "raised"} :
          /\ perform_sweep(ret)
          /\ pc' = LoopNext(ret)
    /\ op' = "perform_sweep"
    /\ UNCHANGED <<config, outside, params, now, record, local, passes, rows0, runs, calls>>

\* ------------------------------------------------------------ calls from outside a run
\* job.reset()
CallReset ==
    /\ Quiescent
    /\ calls < MaxCalls
    /\ reset
    /\ op' = "reset"
    /\ calls' = calls + 1
    /\ UNCHANGED <<config, outside, sweeping, job, attrs, params, now, record, pc, local, advances,
                   passes, rows0, runs>>

\* job.adaptive(job.record)
CallAdaptive ==
    /\ Quiescent
    /\ calls < MaxCalls
    /\ adaptive
    /\ op' = "adaptive"
    /\ calls' = calls + 1
    /\ UNCHANGED <<config, outside, sweeping, job, attrs, params, now, record, pc, local, advances,
                   passes, rows0, runs>>

\* names of self._columns: timestamp, the setter keys, the getter keys
Columns == {"timestamp"} \cup DOMAIN attrs \cup DOMAIN getters

\* mutant of prepare_record: a record is made whether or not one is bound
Prepared_AlwaysNew(rec, rebuild) == [bound |-> TRUE, rows |-> <<>>, columns |-> Columns]

\* the record after prepare_record: if self._record is None or rebuild, a new
\* DataRecord(record_name, self._columns), else the one there is
Prepared(rec, rebuild) ==
    IF ~rec.bound \/ rebuild
    THEN [bound |-> TRUE, rows |-> <<>>, columns |-> Columns]
    ELSE rec

\* AtomJob.prepare_record(record_name, rebuild), which
\* AtomJobSweeper.prepare_record hands on to the child
PrepareRecord ==
    /\ Quiescent
    /\ \E rebuild \in BOOLEAN :
          /\ record' = Prepared(record, rebuild)
          /\ op' = IF rebuild THEN "prepare_record(rebuild)" ELSE "prepare_record"
    /\ UNCHANGED <<config, outside, index, gindex, sweeping, job, attrs, params, now, pc, local,
                   result, results, advances, passes, rows0, runs, calls>>

Next ==
    \/ RunStart
    \/ BodyBeginWait
    \/ BodySet
    \/ BodyGet
    \/ BodyEndWait
    \/ Advance
    \/ CallReset
    \/ CallAdaptive
    \/ PrepareRecord

Spec == Init /\ [][Next]_vars

\* ------------------------------------------------------------ assignments from outside
\* The properties values, grid and record can be assigned by any code that
\* holds the job, between runs or while a run is suspended in a wait.
\* the pass is in one of its waits: asyncio.sleep is awaited only for a delay > 0
Suspended ==
    \/ pc = "pass_set" /\ local.delay_begin > 0
    \/ pc = "pass_get" /\ BodySets(attrs, local.dryrun) /\ job.delay_after_set > 0
    \/ pc = "advance" /\ passes[Len(passes)].delay_end > 0

\* other code gets to run
Yielded == Quiescent \/ Suspended

\* the sequences assigned to Scanner.values
AssignedLists == {<<>>, <<Dict1("x", 1)>>, <<Dict2("x", 2, "y", 7), Dict1("x", 1)>>}

\* the grids assigned to GridScanner.grid: no axis, an axis without candidates,
\* and a grid of two axes
AssignedGrids == {<<>>, <<(<<"x", <<>>>>)>>, <<Axis(1, 2), Axis(2, 1)>>}

\* the records assigned to record: one with every column of the job, one with
\* the timestamp column only
AssignedRecords == {[bound |-> TRUE, rows |-> <<>>, columns |-> c] :
                       c \in {Columns, {"timestamp"}}}

\* GridScanner._check_grid
CheckGrid(g) ==
    /\ Len(g) > 0
    /\ \A a \in 1..Len(g) :
          /\ Len(g[a]) = 2
          /\ g[a][1] # ""
          /\ Len(g[a][2]) > 0

\* tuple(map(lambda _, seq: len(seq), values)): map calls the lambda with one
\* argument, the axis, where it takes two, so the call for the first axis
\* raises TypeError; only a grid with no axis gets a shape, the empty one
GridShape(g) == [raised |-> Len(g) > 0, shape |-> <<>>]

\* mutant of the setters' guard: not self.sweeping is left out
Accepted_Always(valid) == valid

\* whether the guard of the two property setters lets the assignment through
Accepted(valid) == ~sweeping /\ valid

\* Scanner.values = value_seq
SetValues ==
    /\ kind = "Scanner"
    /\ Yielded
    /\ outside.n < MaxOutside
    /\ \E seq \in AssignedLists :
          /\ values' = IF Accepted(Len(seq) > 0) THEN seq ELSE values
          /\ index' = IF Accepted(Len(seq) > 0) THEN 0 ELSE index
          /\ outside' = [n |-> outside.n + 1, property |-> "values", value |-> seq,
                         raised |-> ""]
    /\ op' = "values"
    /\ UNCHANGED <<fixed, grid, gindex, record, running>>

\* GridScanner.grid = values: _grid is assigned, then computing the shape
\* raises and the assignment ends there, before _shape and _index are written
SetGrid ==
    /\ kind = "GridScanner"
    /\ Yielded
    /\ outside.n < MaxOutside
    /\ \E g \in AssignedGrids :
          /\ grid' = IF Accepted(CheckGrid(g)) THEN g ELSE grid
          /\ IF Accepted(CheckGrid(g)) /\ ~GridShape(g).raised
             THEN /\ shape' = GridShape(g).shape
                  /\ gindex' = [a \in 1..(Len(g) + 1) |-> 0]
             ELSE UNCHANGED <<shape, gindex>>
          /\ outside' = [n |-> outside.n + 1, property |-> "grid", value |-> g,
                         raised |-> IF Accepted(CheckGrid(g)) /\ GridShape(g).raised
                                    THEN "TypeError"
                                    ELSE ""]
    /\ op' = "grid"
    /\ UNCHANGED <<kind, times, t0, delay_begin, delay_after_set, delay_gap, delay_end,
                   getters, new, values, index, record, running>>

\* mutant of the record binding: it also puts the cursor back to its start
SetRecord_Rewinds ==
    /\ Yielded
    /\ outside.n < MaxOutside
    /\ \E rec \in AssignedRecords :
          /\ record' = rec
          /\ outside' = [n |-> outside.n + 1, property |-> "record", value |-> rec,
                         raised |-> ""]
    /\ index' = 0
    /\ gindex' = GridReset(gindex)
    /\ op' = "record"
    /\ UNCHANGED <<config, running>>

\* AtomJobSweeper.record = record: self.child._record = record
SetRecord ==
    /\ Yielded
    /\ outside.n < MaxOutside
    /\ \E rec \in AssignedRecords :
          /\ record' = rec
          /\ outside' = [n |-> outside.n + 1, property |-> "record", value |-> rec,
                         raised |-> ""]
    /\ op' = "record"
    /\ UNCHANGED <<config, index, gindex, running>>

\* whether the record has every column of self._columns
HasColumns(rec) == Columns \subseteq rec.columns

\* AtomJob.record = record, on the child
SetChildRecord ==
    /\ Yielded
    /\ outside.n < MaxOutside
    /\ \E rec \in AssignedRecords :
          /\ record' = IF HasColumns(rec) THEN rec ELSE record
          /\ outside' = [n |-> outside.n + 1, property |-> "child.record", value |-> rec,
                         raised |-> IF HasColumns(rec) THEN "" ELSE "ValueError"]
    /\ op' = "child.record"
    /\ UNCHANGED <<config, index, gindex, running>>

NextAssign ==
    \/ Next
    \/ SetValues
    \/ SetGrid
    \/ SetRecord
    \/ SetChildRecord

SpecAssign == Init /\ [][NextAssign]_vars

\* the same with a few jobs only: a Counter of two passes, a Scanner of two
\* mappings and one whose only mapping is empty, a grid of one candidate and
\* one of two axes
InitFew ==
    /\ Init
    /\ kind = "Counter" => times = 2
    /\ kind = "Scanner" => values \in {<<Dict1("x", 1), Dict2("x", 2, "y", 7)>>, <<Empty>>}
    /\ kind = "GridScanner" => grid \in {<<Axis(1, 1)>>, <<Axis(1, 2), Axis(2, 1)>>}

SpecAssignFew == InitFew /\ [][NextAssign]_vars

\* ------------------------------------------------------------ failing parameters
\* A parameter is a piece of hardware: a write or a read of it may raise.
\* body catches nothing, so the error leaves the pass where it is and ends
\* the run.
\* the run in progress is the last one followed: a failure is the end of the
\* run it happens in, and what it leaves behind is looked at there
LastRun == runs = MaxRuns

\* position of a setter in self._setters, which keeps the order of the bindings
SetterOrder(k) == CHOOSE i \in 1..Len(AxisKey) : AxisKey[i] = k

\* the setter loop up to the write that raises: the parameters of the setters
\* before it are written
WrittenBefore(pm, at, k) ==
    [p \in DOMAIN pm |->
        IF p \in DOMAIN at /\ SetterOrder(p) < SetterOrder(k) THEN at[p] ELSE pm[p]]

\* body, when para(attr()) raises for setter k
BodySetRaises ==
    /\ pc = "pass_set"
    /\ BodySets(attrs, job.is_dryrun)
    /\ LastRun
    /\ outside.n < MaxOutside
    /\ \E k \in DOMAIN attrs :
          /\ params' = WrittenBefore(params, attrs, k)
          /\ outside' = [n |-> outside.n + 1, property |-> "parameter", value |-> k,
                         raised |-> "write"]
    /\ pc' = "error"
    /\ op' = "body raised"
    /\ local' = NoLocal
    /\ UNCHANGED <<config, index, gindex, sweeping, job, attrs, now, record,
                   result, results, advances, passes, rows0, runs, calls>>

\* mutant of the failing getter read: the row is appended before the read raises
BodyGetRaises_RowFirst ==
    /\ pc = "pass_get"
    /\ DOMAIN getters # {} /\ ~local.dryrun
    /\ record' = IF BodyRecords(record, local.dryrun)
                  THEN [record EXCEPT !.rows = Append(@, RowStored(record, local.values))]
                  ELSE record
    /\ LastRun
    /\ outside.n < MaxOutside
    /\ outside' = [n |-> outside.n + 1, property |-> "parameter", value |-> GetterKey,
                   raised |-> "read"]
    /\ pc' = "error"
    /\ op' = "body raised"
    /\ local' = NoLocal
    /\ UNCHANGED <<config, index, gindex, sweeping, job, attrs, params, now,
                   result, results, advances, passes, rows0, runs, calls>>

\* body, when para() raises for a getter: add_rows is not reached
BodyGetRaises ==
    /\ pc = "pass_get"
    /\ DOMAIN getters # {} /\ ~local.dryrun
    /\ LastRun
    /\ outside.n < MaxOutside
    /\ outside' = [n |-> outside.n + 1, property |-> "parameter", value |-> GetterKey,
                   raised |-> "read"]
    /\ pc' = "error"
    /\ op' = "body raised"
    /\ local' = NoLocal
    /\ UNCHANGED <<config, index, gindex, sweeping, job, attrs, params, now,
                   record, result, results, advances, passes, rows0, runs, calls>>

\* the runs of a job whose parameters may fail
NextFaults ==
    \/ RunStart
    \/ BodyBeginWait
    \/ BodySet
    \/ BodySetRaises
    \/ BodyGet
    \/ BodyGetRaises
    \/ BodyEndWait
    \/ Advance
    \/ PrepareRecord

SpecFaults == Init /\ [][NextFaults]_vars

\* ------------------------------------------------------------ constructor calls
\* A Parameter is named by its name.  The setters and getters arguments
\* (ParameterSet) come in three shapes: a sequence of Parameters ("list"), a
\* sequence of (key, Parameter) pairs ("pairs") and a dict key -> Parameter
\* ("dict"); in each the key of a parameter is its name.
ParameterSets(names) == {[shape |-> s, names |-> n] : s \in {"list", "pairs", "dict"}, n \in names}

SetterArgs == ParameterSets({<<>>, <<"x">>, <<"x", "y">>})

\* the getters argument: none, the parameter g, and the parameter x, which is
\* also given as a setter
GetterArgs == ParameterSets({<<>>, <<(GetterKey)>>, <<"x">>})

\* the times argument of Counter, with its Python type
TimesArgs == {[type |-> "int", v |-> 0], [type |-> "int", v |-> 2], [type |-> "int", v |-> -1],
              [type |-> "float", v |-> 2], [type |-> "str", v |-> 0]}

\* the delay arguments, with their Python type: a call passes the same one for
\* each of its delays
DelayArgs == {[type |-> "float", v |-> 2], [type |-> "int", v |-> 2],
              [type |-> "float", v |-> -1], [type |-> "str", v |-> 0]}

\* the values argument of Scanner
ValuesArgs == {<<>>, <<Dict1("x", 1)>>, <<Empty, Dict2("x", 2, "y", 7)>>}

\* the values argument of GridScanner: no axis, an axis without candidates,
\* one axis, two axes of which the second has no candidates, two axes
GridArgs == {<<>>, <<(<<"x", <<>>>>)>>, <<Axis(1, 2)>>,
             <<Axis(1, 1), <<"y", <<>>>>>>, <<Axis(1, 2), Axis(2, 1)>>}

NoArgs == [setters |-> [shape |-> "list", names |-> <<>>],
           getters |-> [shape |-> "list", names |-> <<>>],
           times |-> [type |-> "int", v |-> 1],
           values |-> <<>>,
           grid |-> <<>>,
           delay |-> [type |-> "float", v |-> 0]]

Called(class, args) ==
    [class |-> class, args |-> args, stage |-> "called", raised |-> "", created |-> {},
     setters |-> <<>>, getters |-> [sequence |-> TRUE, pairs |-> <<>>], columns |-> <<>>]

NewCalls ==
    {Called("Counter", [NoArgs EXCEPT !.getters = g, !.times = t, !.delay = d]) :
        g \in GetterArgs, t \in TimesArgs, d \in DelayArgs}
    \cup {Called("Scanner", [NoArgs EXCEPT !.setters = st, !.getters = g, !.values = v, !.delay = d]) :
        st \in SetterArgs, g \in GetterArgs, v \in ValuesArgs, d \in DelayArgs}
    \cup {Called("GridScanner", [NoArgs EXCEPT !.setters = st, !.getters = g, !.grid = v, !.delay = d]) :
        st \in SetterArgs, g \in GetterArgs, v \in GridArgs, d \in DelayArgs}

\* the state before a constructor has assigned anything
InitNew ==
    /\ new \in NewCalls
    /\ kind = new.class
    /\ times = 0 /\ values = <<>> /\ grid = <<>> /\ shape = <<>>
    /\ index = 0 /\ gindex = <<>>
    /\ t0 = 0 /\ delay_begin = 0 /\ delay_after_set = 0 /\ delay_gap = 0 /\ delay_end = 0
    /\ sweeping = FALSE
    /\ job = [t0 |-> 0, delay_begin |-> 0, delay_after_set |-> 0, delay_end |-> 0,
              is_dryrun |-> FALSE]
    /\ attrs = Empty
    /\ getters = Empty
    /\ params = [k \in {"x", "y", GetterKey} |-> ParaInit]
    /\ now = 0
    /\ record = [bound |-> FALSE, rows |-> <<>>, columns |-> {}]
    /\ pc = "new"
    /\ local = NoLocal
    /\ op = "new"
    /\ result = NoResult
    /\ results = <<>>
    /\ advances = <<>>
    /\ passes = <<>>
    /\ rows0 = 0
    /\ runs = 0
    /\ calls = 0
    /\ outside = NoOutside

\* what a constructor does not get to
unrun == <<now, record, params, pc, local, op, result, results, advances, passes, rows0,
           runs, calls, outside>>

\* parse_getters: a non-empty sequence is returned as pairs (a sequence of
\* pairs as it is), a dict as its items(), which is no Sequence; anything else
\* gives []
parse_getters(arg) ==
    IF arg.shape \in {"list", "pairs"} /\ Len(arg.names) > 0
    THEN [sequence |-> TRUE, pairs |-> [i \in 1..Len(arg.names) |-> <<arg.names[i], arg.names[i]>>]]
    ELSE IF arg.shape = "dict"
         THEN [sequence |-> FALSE,
               pairs |-> [i \in 1..Len(arg.names) |-> <<arg.names[i], arg.names[i]>>]]
         ELSE [sequence |-> TRUE, pairs |-> <<>>]

\* parse_setters_with_values: for a sequence of pairs and for a dict, map calls
\* the two-argument lambda with one argument, the pair, which raises TypeError
\* at the first element
parse_setters_with_values(arg, vals) ==
    IF arg.shape \in {"list", "pairs"} /\ Len(arg.names) > 0
    THEN IF arg.shape = "pairs"
         THEN [raised |-> "TypeError", setters |-> <<>>]
         ELSE [raised |-> "",
               setters |-> [i \in 1..Len(arg.names) |->
                              <<arg.names[i], arg.names[i], InitialValue(arg.names[i], vals)>>]]
    ELSE IF arg.shape = "dict" /\ Len(arg.names) > 0
         THEN [raised |-> "TypeError", setters |-> <<>>]
         ELSE [raised |-> "", setters |-> <<>>]

\* GridScanner.__init__: dict(map(lambda key, seq: (key, seq[0]), values)); the
\* lambda is called with one argument, the axis, which raises TypeError at the
\* first axis
GridSeed(g) == [raised |-> IF Len(g) > 0 THEN "TypeError" ELSE "", values |-> Empty]

\* the arguments of super().__init__ as the three constructors compute them
Parsed(call) ==
    CASE call.class = "Counter" ->
            [raised |-> "", setters |-> <<>>, getters |-> parse_getters(call.args.getters)]
      [] call.class = "Scanner" ->
            IF Len(call.args.values) = 0
            THEN [raised |-> "IndexError", setters |-> <<>>, getters |-> parse_getters(NoArgs.getters)]
            ELSE LET st == parse_setters_with_values(call.args.setters, call.args.values[1])
                 IN [raised |-> st.raised, setters |-> st.setters,
                     getters |-> parse_getters(call.args.getters)]
      [] call.class = "GridScanner" ->
            IF GridSeed(call.args.grid).raised # ""
            THEN [raised |-> GridSeed(call.args.grid).raised, setters |-> <<>>,
                  getters |-> parse_getters(NoArgs.getters)]
            ELSE LET st == parse_setters_with_values(call.args.setters,
                                                     GridSeed(call.args.grid).values)
                 IN [raised |-> st.raised, setters |-> st.setters,
                     getters |-> parse_getters(call.args.getters)]

\* the constructor evaluates the arguments of super().__init__
NewParse ==
    /\ new.stage = "called"
    /\ new' = [new EXCEPT !.stage = IF Parsed(new).raised # "" THEN "raised" ELSE "parsed",
                          !.raised = Parsed(new).raised,
                          !.setters = Parsed(new).setters,
                          !.getters = Parsed(new).getters]
    /\ UNCHANGED <<kind, times, values, grid, shape, index, gindex, t0, delay_begin,
                   delay_after_set, delay_gap, delay_end, sweeping, job, attrs, getters,
                   unrun>>

\* mutant of the delay test: the test for a negative value is left out
Clamp_KeepNegative(d) == IF d.type = "float" THEN d.v ELSE 0

\* a delay argument as the constructors store it: 0.0 unless it is a float >= 0
Clamp(d) == IF d.type = "float" /\ d.v >= 0 THEN d.v ELSE 0

\* AtomJob.__init__, setter loop: the attributes made for the setter bindings
NewSetters(st) ==
    [k \in {st[i][1] : i \in {j \in 1..Len(st) : st[j][1] # ""}} |->
        LET i == CHOOSE j \in 1..Len(st) :
                    /\ st[j][1] = k
                    /\ \A h \in 1..Len(st) : st[h][1] = k => h <= j
        IN st[i][3]]

\* AtomJob.__init__, getter loop: para = setter[1] reads the variable of the
\* setter loop, which is the last setter binding, and is unbound when that
\* loop had nothing to go through
NewGetters(st, gt) ==
    IF ~gt.sequence \/ Len(gt.pairs) = 0
    THEN [raised |-> "", getters |-> Empty]
    ELSE IF Len(st) = 0
         THEN [raised |-> "UnboundLocalError", getters |-> Empty]
         ELSE [raised |-> "",
               getters |-> [k \in {gt.pairs[i][1] : i \in {j \in 1..Len(gt.pairs) : gt.pairs[j][1] # ""}}
                              |-> st[Len(st)][2]]]

\* the keys of a sequence of bindings that the loops of AtomJob.__init__ take:
\* key = str(binding[0]), taken when len(key) > 0
BoundKeys(bindings) ==
    SelectSeq([i \in 1..Len(bindings) |-> bindings[i][1]], LAMBDA k : k # "")

\* AtomJob.__init__: self._columns starts with timestamp and gets one
\* descriptor appended for every setter binding taken, then one for every
\* getter binding taken; these are their names
NewColumns(st, gt) ==
    <<"timestamp">> \o BoundKeys(st) \o (IF gt.sequence THEN BoundKeys(gt.pairs) ELSE <<>>)

\* AtomJobSweeper.__init__ builds the child: AtomJob(setters, getters,
\* delay_after_set=delay_after_set)
NewChild ==
    /\ new.stage = "parsed"
    /\ LET g == NewGetters(new.setters, new.getters)
       IN IF g.raised # ""
          THEN /\ new' = [new EXCEPT !.stage = "raised", !.raised = g.raised]
               /\ UNCHANGED <<job, attrs, getters>>
          ELSE /\ new' = [new EXCEPT !.stage = "child", !.created = @ \cup {"child"},
                                     !.columns = NewColumns(new.setters, new.getters)]
               /\ attrs' = NewSetters(new.setters)
               /\ getters' = g.getters
               \* Counter passes no delay_after_set on
               /\ job' = [job EXCEPT !.delay_after_set =
                                        IF new.class = "Counter" THEN 0 ELSE Clamp(new.args.delay)]
    /\ UNCHANGED <<kind, times, values, grid, shape, index, gindex, t0, delay_begin,
                   delay_after_set, delay_gap, delay_end, sweeping, unrun>>

\* AtomJobSweeper.__init__ after super().__init__: its own attributes
NewSweeper ==
    /\ new.stage = "child"
    /\ new' = [new EXCEPT !.stage = "sweeper", !.created = @ \cup {"attributes"}]
    /\ t0' = 0
    /\ delay_begin' = Clamp(new.args.delay)
    /\ delay_after_set' = IF new.class = "Counter" THEN 0 ELSE Clamp(new.args.delay)
    /\ delay_gap' = Clamp(new.args.delay)
    /\ delay_end' = Clamp(new.args.delay)
    /\ sweeping' = FALSE
    /\ UNCHANGED <<kind, times, values, grid, shape, index, gindex, job, attrs, getters,
                   unrun>>

\* mutant of Counter.__init__: the test for a getter is left out
CounterNew_NoGetterCheck(gt, tm) ==
    IF tm.type # "int" THEN "TypeError"
    ELSE IF tm.v < 1 THEN "ValueError"
    ELSE ""

\* Counter.__init__ after super().__init__: the error it raises, "" when none
CounterNew(gt, tm) ==
    IF DOMAIN gt = {} THEN "ValueError"
    ELSE IF tm.type # "int" THEN "TypeError"
    ELSE IF tm.v < 1 THEN "ValueError"
    ELSE ""

\* the rest of the constructor of the class at hand
NewStrategy ==
    /\ new.stage = "sweeper"
    /\ CASE new.class = "Counter" ->
               IF CounterNew(getters, new.args.times) # ""
               THEN /\ new' = [new EXCEPT !.stage = "raised",
                                          !.raised = CounterNew(getters, new.args.times)]
                    /\ UNCHANGED <<times, values, grid, shape, index, gindex>>
               ELSE /\ new' = [new EXCEPT !.stage = "built", !.created = @ \cup {"cursor"}]
                    /\ times' = new.args.times.v
                    /\ index' = 0
                    /\ UNCHANGED <<values, grid, shape, gindex>>
         [] new.class = "Scanner" ->
               /\ new' = [new EXCEPT !.stage = "built", !.created = @ \cup {"cursor"}]
               /\ values' = new.args.values
               /\ index' = 0
               /\ UNCHANGED <<times, grid, shape, gindex>>
         [] new.class = "GridScanner" ->
               IF ~CheckGrid(new.args.grid)
               THEN /\ new' = [new EXCEPT !.stage = "raised", !.raised = "ValueError"]
                    /\ UNCHANGED <<times, values, grid, shape, index, gindex>>
               ELSE IF GridShape(new.args.grid).raised
                    THEN /\ new' = [new EXCEPT !.stage = "raised", !.raised = "TypeError"]
                         /\ grid' = new.args.grid
                         /\ UNCHANGED <<times, values, shape, index, gindex>>
                    ELSE /\ new' = [new EXCEPT !.stage = "built", !.created = @ \cup {"cursor"}]
                         /\ grid' = new.args.grid
                         /\ shape' = GridShape(new.args.grid).shape
                         /\ gindex' = [a \in 1..(Len(new.args.grid) + 1) |-> 0]
                         /\ UNCHANGED <<times, values, index>>
    /\ UNCHANGED <<kind, t0, delay_begin, delay_after_set, delay_gap, delay_end, sweeping,
                   job, attrs, getters, unrun>>

NextNew ==
    \/ NewParse
    \/ NewChild
    \/ NewSweeper
    \/ NewStrategy

SpecNew == InitNew /\ [][NextNew]_vars

\* ------------------------------------------------------------ a job from its constructor call on
\* the constructor returns the job it built: the job is idle and can be run
NewReturns ==
    /\ pc = "new"
    /\ new.stage = "built"
    /\ pc' = "idle"
    /\ op' = "init"
    /\ UNCHANGED <<config, outside, index, gindex, sweeping, job, attrs, params, now, record,
                   local, result, results, advances, passes, rows0, runs, calls>>

\* constructor calls, and the runs of the jobs they return
NextLife ==
    \/ NextNew
    \/ NewReturns
    \/ Next

SpecLife == InitNew /\ [][NextLife]_vars

\* ------------------------------------------------------------ an AtomJob run on its own
\* The child is an AtomJob like any other: whoever holds it can write its
\* attributes and run it outside a sweep.  Its configuration is then any the
\* attributes accept.
AtomConfigs == [t0 : {0, 5}, delay_begin : {0, 1}, delay_after_set : {0, 4},
                delay_end : {0, 3}, is_dryrun : BOOLEAN]

InitAtom ==
    /\ InitCounter \/ InitScanner \/ InitGridScanner
    /\ t0 = 0 /\ delay_begin = 0 /\ delay_after_set = 0 /\ delay_gap = 0 /\ delay_end = 0
    /\ sweeping = FALSE
    /\ job \in AtomConfigs
    /\ record \in {[bound |-> FALSE, rows |-> <<>>, columns |-> {}],
                   [bound |-> TRUE, rows |-> <<>>, columns |-> Columns]}
    /\ pc = "idle"
    /\ now = 0
    /\ local = NoLocal
    /\ op = "init"
    /\ result = NoResult
    /\ results = <<>>
    /\ advances = <<>>
    /\ passes = <<>>
    /\ rows0 = 0
    /\ runs = 0
    /\ calls = 0
    /\ new = Constructed
    /\ outside = NoOutside

\* the job is run: body is entered
AtomStart ==
    /\ pc = "idle"
    /\ runs < MaxRuns
    /\ runs' = runs + 1
    /\ pc' = "pass_begin"
    /\ op' = "run"
    /\ UNCHANGED <<config, outside, index, gindex, sweeping, job, attrs, params, now, record,
                   local, result, results, advances, passes, rows0, calls>>

\* body has returned
AtomReturns ==
    /\ pc = "advance"
    /\ pc' = "idle"
    /\ op' = "returned"
    /\ UNCHANGED <<config, outside, index, gindex, sweeping, job, attrs, params, now, record,
                   local, result, results, advances, passes, rows0, runs, calls>>

NextAtom ==
    \/ AtomStart
    \/ BodyBeginWait
    \/ BodySet
    \/ BodyGet
    \/ BodyEndWait
    \/ AtomReturns

SpecAtom == InitAtom /\ [][NextAtom]_vars

\* ------------------------------------------------------------ a run that is let run
\* The run loop is one task of a cooperative scheduler: once it is started, a
\* wait it is suspended in ends and the step after it is taken; nothing makes
\* anybody start a run or call the job from outside.
RunSteps ==
    \/ BodyBeginWait
    \/ BodySet
    \/ BodyGet
    \/ BodyEndWait
    \/ Advance

SpecFair == Init /\ [][Next]_vars /\ WF_vars(RunSteps)

\* ------------------------------------------------------------ vocabulary of the claims
\* the step at hand calls adaptive() / reset()
AdaptiveCalled == Len(results') = Len(results) + 1

ResetCalled == op' \in {"reset", "reset_sweep"}

\* the run has ended normally: advance has returned false
RunDone == pc = "done"

\* the state in which the last advance call of the run has just returned
RunJustDone == RunDone /\ op = "perform_sweep"

\* positions of the advance calls of the run that took the given branch
Took(b) == {i \in DOMAIN advances : advances[i].branch = b}

\* the mappings of the productive advance calls of the run, in call order
ProductiveValues ==
    LET prod == SelectSeq(advances, LAMBDA a : a.branch = "productive")
    IN [i \in DOMAIN prod |-> prod[i].values]

RowsAppended == Len(record.rows) - rows0

\* the carry-out digit
Carry == gindex[Len(gindex)]

\* L1 * ... * La
RECURSIVE Product(_, _)
Product(lens, a) == IF a = 0 THEN 1 ELSE lens[a] * Product(lens, a - 1)

AxisLens(g) == [a \in 1..Len(g) |-> Len(g[a][2])]

GridSize(g) == Product(AxisLens(g), Len(g))

\* combination number n (from 0) of the grid with axis 0 varying fastest: the
\* digit of axis a is (n div (L1 * ... * L(a-1))) mod La
Combination(g, n) ==
    [k \in {g[a][1] : a \in 1..Len(g)} |->
        LET a == CHOOSE b \in 1..Len(g) : g[b][1] = k
        IN g[a][2][((n \div Product(AxisLens(g), a - 1)) % Len(g[a][2])) + 1]]

\* the mappings adaptive() has returned since the last reset(), empty ones left out
NonEmptyResults ==
    LET ne == SelectSeq(results, LAMBDA r : ~r.raised /\ DOMAIN r.values # {})
    IN [i \in DOMAIN ne |-> ne[i].values]

\* ------------------------------------------------------------ C1
\* C1: in a run that ended normally with a record bound, the number of rows
\* appended during the run equals the number N of non-empty mappings adaptive()
\* returned before its first empty one (the productive advance calls).
C1_RowsEqualProductive ==
    (RunJustDone /\ record.bound)
        => RowsAppended = Cardinality(Took("productive"))

\* ------------------------------------------------------------ C2
\* the branches a Counter run with times = n goes through
CounterBranches(n) ==
    [i \in 1..(n + 2) |-> IF i <= n THEN "productive" ELSE IF i = n + 1 THEN "drain" ELSE "stop"]

\* C2: the advance calls of a Counter run with times = N are, in order, N
\* productive calls, one call that configures the drain pass and one call that
\* returns false; the run makes no other advance call.
C2_CounterAdvances ==
    kind = "Counter" =>
        /\ pc # "error"
        /\ Len(advances) <= times + 2
        /\ \A i \in DOMAIN advances : advances[i].branch = CounterBranches(times)[i]
        /\ RunDone => Len(advances) = times + 2
        /\ Len(advances) = times + 2 => RunDone

C2_Witness ==
    /\ kind = "Counter"
    /\ times >= 2
    /\ RunDone
    /\ Cardinality(Took("productive")) = times

\* ------------------------------------------------------------ C3
\* C3: the non-empty results of a GridScanner's adaptive() since reset() are the
\* combinations of the grid in axis-0-fastest order, starting with the
\* combination of the first candidates, and once the grid is exhausted (the
\* carry-out digit is 1) each of the L1 * ... * Lm combinations has been
\* returned exactly once.
C3_GridEnumeratesAll ==
    kind = "GridScanner" =>
        /\ Len(NonEmptyResults) <= GridSize(grid)
        /\ \A n \in DOMAIN NonEmptyResults : NonEmptyResults[n] = Combination(grid, n - 1)
        /\ Carry = 1 => Len(NonEmptyResults) = GridSize(grid)

\* ------------------------------------------------------------ C4
\* position of the first empty mapping of a list, Len + 1 when it has none
FirstEmpty(vals) ==
    IF \E i \in DOMAIN vals : DOMAIN vals[i] = {}
    THEN CHOOSE i \in DOMAIN vals :
            /\ DOMAIN vals[i] = {}
            /\ \A j \in 1..(i - 1) : DOMAIN vals[j] # {}
    ELSE Len(vals) + 1

\* the last advance call was productive and wrote its mapping to the child
JustApplied(v) ==
    /\ op = "perform_sweep"
    /\ advances # <<>>
    /\ advances[Len(advances)].branch = "productive"
    /\ advances[Len(advances)].values = v

\* C4 as stated: at the end of a Scanner run the mappings applied by the
\* productive advance calls are the whole list values[0..K-1] in order,
\* whatever the list contains.
C4_ScannerAppliesWholeList ==
    (kind = "Scanner" /\ RunDone) => ProductiveValues = values

\* C4 amended: the mappings applied by the productive advance calls of a
\* Scanner run are, in order, the mappings of the list before its first empty
\* mapping (the whole list when no mapping is empty), and each is written to
\* the child's setter attributes for the keys the child has.
C4_ScannerAppliesListUpToEmpty ==
    kind = "Scanner" =>
        /\ Len(ProductiveValues) < FirstEmpty(values)
        /\ \A i \in DOMAIN ProductiveValues : ProductiveValues[i] = values[i]
        /\ RunDone => Len(ProductiveValues) = FirstEmpty(values) - 1
        /\ \A i \in DOMAIN values :
              JustApplied(values[i]) =>
                 \A k \in DOMAIN attrs : k \in DOMAIN values[i] => attrs[k] = values[i][k]

C4_Witness ==
    /\ kind = "Scanner"
    /\ RunDone
    /\ Len(values) = 3
    /\ FirstEmpty(values) = 4
    /\ values[1] # values[2]
    /\ "y" \in DOMAIN values[3]
    /\ ProductiveValues = values

\* ------------------------------------------------------------ C5
\* C5: after one complete run of a Scanner with the single setter x, a bound
\* record that was empty and values [{x:v1},...,{x:vK}], the record has exactly
\* K rows and its x column reads v1,...,vK.
C5_RecordColumnIsList ==
    (/\ kind = "Scanner"
     /\ RunJustDone
     /\ record.bound /\ rows0 = 0
     /\ \A i \in DOMAIN values : DOMAIN values[i] = {"x"})
        => /\ Len(record.rows) = Len(values)
           /\ \A i \in DOMAIN values : record.rows[i]["x"] = values[i]["x"]

\* ------------------------------------------------------------ C6
\* C6: a drain pass (is_dryrun true) records nothing, ends with the wait of the
\* sweep's delay_end and is the last pass of its run, every other pass of the
\* run has the child's delay_end at 0, and a run that ended normally has
\* exactly one drain pass, which comes after the recording passes.
C6_OneDrainPassLast ==
    /\ \A i \in DOMAIN passes :
          IF passes[i].is_dryrun
          THEN /\ i = Len(passes)
               /\ ~passes[i].recorded
               /\ passes[i].delay_end = delay_end
               /\ passes[i].waits = Sleep(<<>>, "delay_end", delay_end)
               /\ pc \in {"advance", "done"}
          ELSE /\ passes[i].delay_end = 0
               /\ \A w \in DOMAIN passes[i].waits : passes[i].waits[w][1] # "delay_end"
    /\ RunDone =>
          /\ passes # <<>>
          /\ passes[Len(passes)].is_dryrun
          /\ Cardinality({i \in DOMAIN passes : passes[i].is_dryrun}) = 1
    /\ RunJustDone =>
          /\ RowsAppended = Cardinality({i \in DOMAIN passes : passes[i].recorded})
          /\ record.bound => \A i \in 1..(Len(passes) - 1) : passes[i].recorded

C6_Witness ==
    /\ RunJustDone
    /\ record.bound
    /\ delay_end = 3
    /\ Len(passes) >= 3
    /\ passes[Len(passes)].delay_end = 3
    /\ passes[Len(passes)].waits = <<(<<"delay_end", 3>>)>>
    /\ passes[Len(passes) - 1].recorded
    /\ passes[Len(passes) - 1].waits # <<>>

\* ------------------------------------------------------------ C7
\* C7: in a Counter run with times = N that ended normally, the run has N + 1
\* child passes: is_dryrun is false during each of the first N, each of which
\* records a row (when a record is bound), and true during pass N + 1, which
\* records nothing and is the last pass.
C7_DryrunOnlyInPassAfterN ==
    (kind = "Counter" /\ RunJustDone) =>
        /\ Len(passes) = times + 1
        /\ \A i \in 1..times :
              /\ ~passes[i].is_dryrun
              /\ record.bound => passes[i].recorded
        /\ passes[times + 1].is_dryrun
        /\ ~passes[times + 1].recorded

\* ------------------------------------------------------------ C8
\* every axis digit is at its last candidate: the position of the last combination
AtLastCombination ==
    \A a \in 1..Len(grid) : gindex[a] = Len(grid[a][2]) - 1

\* the previous adaptive() call returned the last combination of the grid
ReturnedLastCombination ==
    /\ results # <<>>
    /\ ~results[Len(results)].raised
    /\ results[Len(results)].values = Combination(grid, GridSize(grid) - 1)

\* C8 as stated: the carry-out digit changes from 0 to 1 only during the
\* adaptive() call that follows the call which returned the last combination,
\* and goes back to 0 only by reset().
C8_CarryAfterLastCombination ==
    [][kind = "GridScanner" =>
          /\ (Carry = 0 /\ Carry' = 1) => (AdaptiveCalled /\ ReturnedLastCombination)
          /\ (Carry = 1 /\ Carry' = 0) => ResetCalled]_vars

\* C8 amended: between two resets the carry-out digit changes from 0 to 1 at
\* most once, and it does so during the adaptive() call that builds the last
\* combination: the call entered with every axis digit at its last candidate,
\* which is call number L1 * ... * Lm after the reset.
C8_CarryWithLastCombination ==
    [][kind = "GridScanner" =>
          /\ (Carry = 0 /\ Carry' = 1) =>
                /\ AdaptiveCalled
                /\ AtLastCombination
                /\ Len(results') = GridSize(grid)
          /\ (Carry = 1 /\ Carry' = 0) => ResetCalled
          /\ (Carry' = 1) <=> (Len(results') >= GridSize(grid))]_vars

C8_Witness ==
    /\ kind = "GridScanner"
    /\ Len(grid) = 2
    /\ GridSize(grid) = 4
    /\ Carry = 1
    /\ Len(results) = 4
    /\ Len(NonEmptyResults) = 3

\* ------------------------------------------------------------ C9
\* C9: while the carry-out digit is 1, an adaptive() call returns the empty
\* mapping and changes no digit, and only reset() takes the carry-out digit
\* off 1.
C9_ExhaustedStaysExhausted ==
    [][(kind = "GridScanner" /\ Carry = 1) =>
          /\ AdaptiveCalled => (result' = [raised |-> FALSE, values |-> Empty] /\ gindex' = gindex)
          /\ Carry' # 1 => ResetCalled]_vars

C9_Witness ==
    /\ kind = "GridScanner"
    /\ Carry = 1
    /\ op = "adaptive"
    /\ Len(results) >= GridSize(grid) + 2
    /\ result = [raised |-> FALSE, values |-> Empty]

\* ------------------------------------------------------------ C10
\* the cursor is in its initial state
CursorAtStart ==
    IF kind = "GridScanner" THEN \A a \in 1..Len(gindex) : gindex[a] = 0 ELSE index = 0

\* the first value of the sweep
FirstValue ==
    CASE kind = "Counter" -> Dict1("running", TRUE)
      [] kind = "Scanner" -> values[1]
      [] kind = "GridScanner" -> Combination(grid, 0)

\* reset() or reset_sweep() was the last call that touched the cursor
AfterReset == results = <<>> /\ (op = "reset" \/ pc = "advance")

\* C10: every reset() or reset_sweep(), after any number of adaptive() calls
\* and whether or not another reset came right before it, leaves the cursor in
\* its initial state, and the adaptive() call that follows returns the first
\* value of the sweep.
C10_ResetRestoresStart ==
    [][/\ ResetCalled => CursorAtStart'
       /\ (AfterReset /\ AdaptiveCalled) =>
             result' = [raised |-> FALSE, values |-> FirstValue]]_vars

\* ------------------------------------------------------------ C13
\* C13: in every state, sweeping is false exactly when no advance call of the
\* current run has taken the productive branch; once true it stays true for the
\* rest of the run, the drain pass included, and only reset_sweep clears it.
C13_SweepingIffProductive ==
    /\ [](sweeping <=> Took("productive") # {})
    /\ [][(sweeping /\ ~sweeping') => op' = "reset_sweep"]_vars

C13_Witness ==
    /\ pc = "pass_get"
    /\ local.dryrun
    /\ sweeping
    /\ Cardinality(Took("productive")) >= 2
    /\ runs = 2

\* ------------------------------------------------------------ C14
\* the phase of the state machine of a sweep run; a run that an error ended is
\* in none of the five phases
Phase ==
    IF runs = 0 THEN "Idle"
    ELSE IF pc = "done" THEN "Done"
    ELSE IF pc = "error" THEN "Aborted"
    ELSE IF job.is_dryrun THEN "Draining"
    ELSE IF sweeping THEN "Sweeping"
    ELSE "Priming"

\* the last advance call, made in the step at hand, took branch b
Advanced(b) ==
    /\ Len(advances') = Len(advances) + 1
    /\ advances'[Len(advances')].branch = b

\* C14 as stated: the phase of a run changes only from Idle to Priming (by reset_sweep),
\* from Priming to Sweeping (by an advance whose adaptive() result is not
\* empty), from Sweeping to Draining (by an advance whose adaptive() result is
\* empty), from Draining to Done (by the advance that sees is_dryrun true) and
\* from Done to Priming (by a new reset_sweep): no phase is skipped or
\* revisited, and every run that left Priming gets to Done.
C14_PhasesInOrder ==
    [][Phase' # Phase =>
          \/ Phase = "Idle" /\ Phase' = "Priming" /\ op' = "reset_sweep"
          \/ Phase = "Priming" /\ Phase' = "Sweeping" /\ Advanced("productive")
          \/ Phase = "Sweeping" /\ Phase' = "Draining" /\ Advanced("drain")
          \/ Phase = "Draining" /\ Phase' = "Done" /\ Advanced("stop")
          \/ Phase = "Done" /\ Phase' = "Priming" /\ op' = "reset_sweep"]_vars

\* C14 amended: the phases come in the order Idle, Priming, Sweeping, Draining,
\* Done and none is revisited within a run, but Sweeping is skipped when the
\* first adaptive() result of the run is empty (Priming to Draining), and a run
\* in which adaptive() raises stops in Priming or Sweeping without getting to
\* Draining or Done; a new run starts, by reset_sweep, from Done or from such a
\* stop.
C14_PhasesInOrderOrSkipped ==
    [][Phase' # Phase =>
          \/ Phase = "Idle" /\ Phase' = "Priming" /\ op' = "reset_sweep"
          \/ Phase = "Priming" /\ Phase' = "Sweeping" /\ Advanced("productive")
          \/ Phase = "Priming" /\ Phase' = "Draining" /\ Advanced("drain")
          \/ Phase = "Sweeping" /\ Phase' = "Draining" /\ Advanced("drain")
          \/ Phase = "Draining" /\ Phase' = "Done" /\ Advanced("stop")
          \/ Phase \in {"Priming", "Sweeping"} /\ Phase' = "Aborted" /\ Advanced("raised")
          \/ Phase \in {"Done", "Aborted"} /\ Phase' = "Priming" /\ op' = "reset_sweep"]_vars

C14_Witness ==
    /\ Phase = "Done"
    /\ runs = 2
    /\ ~sweeping
    /\ Len(advances) = 2
    /\ advances[1].branch = "drain"

\* ------------------------------------------------------------ C15
\* positions of the passes of the run that recorded a row
RecordedPasses == {i \in DOMAIN passes : passes[i].recorded}

\* C15: of the passes of a run that record a row, the first waits the sweep's
\* delay_begin before it and every later one waits the sweep's delay_gap.
C15_GapBeforeLaterRows ==
    \A i \in RecordedPasses :
        passes[i].delay_begin = IF \A j \in RecordedPasses : i <= j
                                THEN delay_begin
                                ELSE delay_gap

\* ------------------------------------------------------------ C17
\* C17: an advance call whose adaptive() result is not empty returns true
\* whatever keys the mapping has: a key the child has no attribute for creates
\* no attribute and changes nothing, every key the child has an attribute for
\* is written to it, the other attributes keep their values, and of the
\* child's configuration only delay_begin may change.
C17_UnknownKeysDropped ==
    [][Advanced("productive") =>
          LET v == advances'[Len(advances')].values
          IN /\ pc' = "pass_begin"
             /\ DOMAIN attrs' = DOMAIN attrs
             /\ \A k \in DOMAIN attrs :
                   attrs'[k] = IF k \in DOMAIN v THEN v[k] ELSE attrs[k]
             /\ job' = [job EXCEPT !.delay_begin = job'.delay_begin]
             /\ params' = params
             /\ record' = record]_vars

C17_Witness ==
    /\ kind = "Scanner"
    /\ op = "perform_sweep"
    /\ pc = "pass_begin"
    /\ advances # <<>>
    /\ advances[Len(advances)].branch = "productive"
    /\ advances[Len(advances)].values = Dict2("x", 2, "y", 7)
    /\ attrs = Dict1("x", 2)
    /\ "y" \notin DOMAIN params

\* ------------------------------------------------------------ C11
\* the step at hand assigns to the given property
Assigned(property) ==
    /\ outside'.n = outside.n + 1
    /\ outside'.property = property

\* C11: while a run is in progress (from its reset_sweep to the advance call
\* that returns false, the waits of the first pass included), an assignment to
\* Scanner.values or GridScanner.grid changes neither the stored sequence nor
\* the shape nor the cursor.
C11_AssignmentIgnoredInRun ==
    [][(~Quiescent /\ (Assigned("values") \/ Assigned("grid")))
          => UNCHANGED <<values, grid, shape, index, gindex>>]_vars

\* ------------------------------------------------------------ C12
\* C12: while no run is in progress (before the first run and after a run has
\* ended), an assignment of a non-empty sequence to Scanner.values stores it
\* and leaves the index at 0, and an assignment of a valid grid to
\* GridScanner.grid stores it, recomputes the shape from it and leaves every
\* digit at 0.
C12_AssignmentAppliedWhenIdle ==
    [][Quiescent =>
          /\ (Assigned("values") /\ Len(outside'.value) > 0) =>
                /\ values' = outside'.value
                /\ index' = 0
          /\ (Assigned("grid") /\ CheckGrid(outside'.value)) =>
                /\ outside'.raised = ""
                /\ grid' = outside'.value
                /\ shape' = AxisLens(outside'.value)
                /\ gindex' = [a \in 1..(Len(outside'.value) + 1) |-> 0]]_vars

\* ------------------------------------------------------------ C18
\* C18: assigning to record, on the sweep job or on its child, a record that
\* lacks a column the job declares raises an error and leaves the bound record
\* as it was, so that a bound record always has every declared column.
C18_MismatchedRecordRejected ==
    /\ [](record.bound => HasColumns(record))
    /\ [][((Assigned("record") \/ Assigned("child.record")) /\ ~HasColumns(outside'.value))
            => (outside'.raised # "" /\ record' = record)]_vars

\* ------------------------------------------------------------ C16
\* the rows appended during the run, and the values of its passes that recorded
RunRows == SubSeq(record.rows, rows0 + 1, Len(record.rows))

RecordedValues ==
    LET rec == SelectSeq(passes, LAMBDA q : q.recorded)
    IN [i \in DOMAIN rec |-> rec[i].values]

\* C16: a write or a read that raises during a child pass ends the run without
\* appending a row for that pass and without touching the rows there are: the
\* rows of the run are exactly those of the passes completed before the
\* failure.
C16_FailedPassRecordsNothing ==
    /\ [][(op' = "body raised" /\ op # "body raised") =>
              (pc' = "error" /\ record' = record /\ passes' = passes)]_vars
    /\ [](op = "body raised" => RunRows = RecordedValues)

C16_Witness ==
    /\ op = "body raised"
    /\ pc = "error"
    /\ record.bound
    /\ Len(RunRows) = 2
    /\ kind = "Scanner"
    /\ params["x"] # attrs["x"]

\* ------------------------------------------------------------ C19
\* the grid has an axis with no candidates
HasEmptyAxis(g) == \E a \in 1..Len(g) : Len(g[a][2]) = 0

\* the constructor call has ended, by returning the job or by raising
Ended == new.stage \in {"built", "raised"}

\* C19: the construction of a GridScanner from a grid that has an axis with no
\* candidates creates no job state (child, attributes, cursor) at any point,
\* and ends by raising the ValueError of the grid validation.
C19_EmptyAxisRejectedFirst ==
    (new.class = "GridScanner" /\ HasEmptyAxis(new.args.grid)) =>
        /\ new.created = {}
        /\ Ended => (new.stage = "raised" /\ new.raised = "ValueError")

\* ------------------------------------------------------------ C20
\* the cases of C20: a Counter whose times is not a positive integer, a
\* Counter with no getter, a Scanner with an empty list of values
Unconstructible ==
    \/ /\ new.class = "Counter"
       /\ ~(new.args.times.type = "int" /\ new.args.times.v >= 1)
    \/ /\ new.class = "Counter"
       /\ Len(new.args.getters.names) = 0
    \/ /\ new.class = "Scanner"
       /\ Len(new.args.values) = 0

\* C20: a constructor call in one of these cases never returns a job: it
\* creates no cursor, and when it ends it has raised an error.
C20_ConstructionFails ==
    Unconstructible =>
        /\ "cursor" \notin new.created
        /\ Ended => (new.stage = "raised" /\ new.raised # "")

C20_Witness ==
    /\ new.class = "Counter"
    /\ Len(new.args.getters.names) = 0
    /\ new.args.times = [type |-> "int", v |-> 2]
    /\ "attributes" \in new.created
    /\ new.stage = "raised"
    /\ new.raised = "ValueError"

\* ------------------------------------------------------------ C21
\* the delay attributes of the sweep job and of its child
Delays == {delay_begin, delay_after_set, delay_gap, delay_end,
           job.delay_begin, job.delay_after_set, job.delay_end}

\* the delay argument is negative or not a float
BadDelay(d) == d.type # "float" \/ d.v < 0

\* C21: every delay attribute of the sweep job and of its child is >= 0 in
\* every state, from the constructor call through the runs of the job; the
\* attributes made from a negative or wrong-typed delay argument hold 0; and
\* the constructor steps that store the delays raise for no delay argument:
\* the child's construction raises only in its getter loop, the sweep job's
\* own attributes are always made.
C21_DelaysNeverNegative ==
    /\ [](\A d \in Delays : d >= 0)
    /\ []((BadDelay(new.args.delay) /\ "attributes" \in new.created) =>
             /\ delay_begin = 0 /\ delay_after_set = 0 /\ delay_gap = 0 /\ delay_end = 0
             /\ \A d \in Delays : d = 0)
    /\ [][/\ (new.stage = "parsed" /\ new'.stage = "raised") =>
                NewGetters(new.setters, new.getters).raised # ""
          /\ new.stage = "child" => new'.stage = "sweeper"]_vars

C21_Witness ==
    /\ new.class = "Scanner"
    /\ new.args.delay = [type |-> "float", v |-> -1]
    /\ new.stage = "built"
    /\ RunDone
    /\ Len(passes) >= 2
    /\ passes[1].waits = <<>>
    /\ job.is_dryrun

\* ------------------------------------------------------------ C22
\* the keys of the values a pass has gathered: timestamp, the key of every
\* setter it wrote, the key of every getter it read
Gathered(v) == DOMAIN v

\* C22: a child pass that runs with is_dryrun true changes no parameter and no
\* record in any of its steps, and gathers nothing but the timestamp: it goes
\* through neither the setter loop nor the getter loop, and appends no row.
C22_DryrunTouchesNothing ==
    /\ [][(op' = "body" /\ job.is_dryrun) => (params' = params /\ record' = record)]_vars
    /\ []((pc \in {"pass_get", "pass_end"} /\ local.dryrun) =>
             (Gathered(local.values) = {"timestamp"} /\ ~local.recorded))
    /\ [](\A i \in DOMAIN passes :
             passes[i].is_dryrun =>
                (Gathered(passes[i].values) = {"timestamp"} /\ ~passes[i].recorded))

C22_Witness ==
    /\ pc = "advance"
    /\ op = "body"
    /\ passes[Len(passes)].is_dryrun
    /\ DOMAIN attrs # {}
    /\ DOMAIN getters # {}
    /\ record.bound
    /\ RowsAppended >= 2
    /\ passes[Len(passes) - 1].recorded
    /\ "g" \in Gathered(passes[Len(passes) - 1].values)

\* ------------------------------------------------------------ C23
\* the wait at a wait point of the given duration, none when it is not > 0
Wait(point, d) == IF d > 0 THEN <<(<<point, d>>)>> ELSE <<>>

\* the pass that has just returned
LastPass == passes[Len(passes)]

PassReturned == pc = "advance" /\ op = "body"

\* C23 as stated: a pass that runs with is_dryrun true suspends at each of its
\* three wait points whose duration is > 0: delay_begin, delay_after_set and
\* delay_end, in this order.
C23_DryrunWaitsAtAllThree ==
    (PassReturned /\ LastPass.is_dryrun) =>
        LastPass.waits = Wait("delay_begin", job.delay_begin)
                         \o Wait("delay_after_set", job.delay_after_set)
                         \o Wait("delay_end", job.delay_end)

\* C23 amended: a pass that runs with is_dryrun true suspends for delay_begin
\* and for delay_end, each when its duration is > 0, and never for
\* delay_after_set, whatever its duration: that wait is part of the setter
\* phase, which a dry run skips.
C23_DryrunWaitsAtBeginAndEnd ==
    (PassReturned /\ LastPass.is_dryrun) =>
        LastPass.waits = Wait("delay_begin", job.delay_begin)
                         \o Wait("delay_end", job.delay_end)

C23_Witness ==
    /\ PassReturned
    /\ LastPass.is_dryrun
    /\ DOMAIN attrs # {}
    /\ job.delay_after_set = 4
    /\ LastPass.waits = <<(<<"delay_begin", 1>>), <<"delay_end", 3>>>>
    /\ now = 4

\* ------------------------------------------------------------ C24
\* the step at hand takes the pass from one position to the next
PassStep(from, to) == pc = from /\ pc' = to

\* the time a wait point of the given duration takes
Waited(d) == IF d > 0 THEN d ELSE 0

\* C24: a pass that is not a dry run goes through begin-wait, setter writes,
\* after-set-wait, getter reads, record append and end-wait in this order.  The
\* begin wait comes first and touches nothing; when the after-set wait is over
\* every setter's parameter holds the attribute's value and no getter has been
\* read and no row appended; the getters are then read, from the parameters as
\* the setters left them, with no wait and no write, and the one row appended
\* holds every setter and getter value; the end wait comes last and touches
\* nothing.  Time passes only in the three waits.
C24_PassPhasesInOrder ==
    [][~job.is_dryrun =>
          /\ PassStep("pass_begin", "pass_set") =>
                /\ local'.waits = Wait("delay_begin", job.delay_begin)
                /\ now' = now + Waited(job.delay_begin)
                /\ params' = params /\ record' = record
          /\ PassStep("pass_set", "pass_get") =>
                /\ \A k \in DOMAIN attrs : params'[k] = attrs[k]
                /\ \A k \in DOMAIN params \ DOMAIN attrs : params'[k] = params[k]
                /\ local'.waits = local.waits \o (IF DOMAIN attrs # {}
                                                  THEN Wait("delay_after_set", job.delay_after_set)
                                                  ELSE <<>>)
                /\ now' = now + (IF DOMAIN attrs # {} THEN Waited(job.delay_after_set) ELSE 0)
                /\ DOMAIN local'.values = {"timestamp"} \cup DOMAIN attrs
                /\ record' = record
          /\ PassStep("pass_get", "pass_end") =>
                /\ params' = params /\ now' = now /\ local'.waits = local.waits
                /\ DOMAIN local'.values = Columns
                /\ \A k \in DOMAIN attrs : local'.values[k] = params[k]
                /\ \A k \in DOMAIN getters : local'.values[k] = params[getters[k]]
                /\ IF record.bound
                   THEN record'.rows = Append(record.rows, local'.values)
                   ELSE record' = record
          /\ PassStep("pass_end", "advance") =>
                /\ LastPass'.waits = local.waits \o Wait("delay_end", job.delay_end)
                /\ now' = now + Waited(job.delay_end)
                /\ params' = params /\ record' = record]_vars

C24_Witness ==
    /\ PassReturned
    /\ ~LastPass.is_dryrun
    /\ LastPass.recorded
    /\ LastPass.waits = <<(<<"delay_begin", 1>>), <<"delay_after_set", 4>>, <<"delay_end", 3>>>>
    /\ kind = "GridScanner"
    /\ Len(grid) = 2
    /\ LastPass.values["g"] = 21
    /\ params["x"] = 11
    /\ now = 8

\* ------------------------------------------------------------ C25
\* C25: in every row a pass records, the value under a getter's key is the
\* value of that getter's own parameter (the parameter the key names), which
\* no setter writes, whatever setters the job has.
C25_GetterReadsOwnParameter ==
    \A i \in DOMAIN passes :
        passes[i].recorded =>
            \A k \in DOMAIN getters : passes[i].values[k] = params[k]

\* ------------------------------------------------------------ C26
\* the position cursor of the strategy at hand
Cursor == IF kind = "GridScanner" THEN gindex ELSE <<index>>

\* C26 as stated: the cursor changes only in a step that calls adaptive() (on
\* its own or inside perform_sweep) or reset() (on its own or inside
\* reset_sweep), and reset() leaves it at its start: an assignment to values,
\* grid or record, the rest of perform_sweep and reset_sweep, and the steps of
\* a child pass leave it as it is.
C26_CursorOnlyByAdaptiveAndReset ==
    [][Cursor' # Cursor =>
          \/ AdaptiveCalled
          \/ ResetCalled /\ CursorAtStart']_vars

\* C26 amended: the cursor changes only in a step that calls adaptive(), in a
\* step that calls reset(), or in an assignment to values or grid, and the
\* last two leave it at its start; an assignment that is turned down, a record
\* binding, the rest of perform_sweep and reset_sweep, and the steps of a child
\* pass leave it as it is.
C26_CursorOnlyByAdaptiveResetAssign ==
    [][Cursor' # Cursor =>
          \/ AdaptiveCalled
          \/ ResetCalled /\ CursorAtStart'
          \/ /\ Assigned("values") \/ Assigned("grid")
             /\ ~sweeping
             /\ CursorAtStart']_vars

C26_Witness ==
    /\ kind = "Scanner"
    /\ op = "values"
    /\ values = outside.value
    /\ index = 0
    /\ Len(results) = 2
    /\ DOMAIN results[1].values # {}
    /\ runs = 0

\* ------------------------------------------------------------ C27
\* C27: once the child of a job is built, the names of its columns are not
\* empty and no name occurs twice: timestamp is the first column only, and no
\* key is both a setter's and a getter's.
C27_ColumnNamesDistinct ==
    "child" \in new.created =>
        /\ new.columns[1] = "timestamp"
        /\ \A i \in DOMAIN new.columns : new.columns[i] # ""
        /\ \A i, j \in DOMAIN new.columns : new.columns[i] = new.columns[j] => i = j

\* ------------------------------------------------------------ C28
\* C28: right after reset_sweep, whatever the run before it left behind, the
\* child's t0, delay_begin and delay_after_set are the sweep job's, the child's
\* delay_end is 0 and its is_dryrun false, sweeping is false and the cursor is
\* at its start.
C28_ResetSweepRestoresChild ==
    op = "reset_sweep" =>
        /\ job.t0 = t0
        /\ job.delay_begin = delay_begin
        /\ job.delay_after_set = delay_after_set
        /\ job.delay_end = 0
        /\ job.is_dryrun = FALSE
        /\ sweeping = FALSE
        /\ CursorAtStart

C28_Witness ==
    /\ op = "reset_sweep"
    /\ kind = "Counter"
    /\ runs = 2
    /\ delay_end = 3
    /\ delay_begin = 1
    /\ job.delay_begin = 1
    /\ Len(record.rows) >= 2

\* ------------------------------------------------------------ C29
\* the step at hand is an advance call
AdvanceCalled == Len(advances') = Len(advances) + 1

\* C29: an advance call made with the child's is_dryrun true returns false
\* (the run is done) without calling adaptive() and without changing the
\* cursor, the child, sweeping, the parameters or the record; an advance call
\* made with is_dryrun false returns true (the child runs again).  So within a
\* run only the last adaptive() result can be empty.
C29_AdvanceFalseOnlyAfterDrain ==
    /\ [][AdvanceCalled =>
             IF job.is_dryrun
             THEN /\ pc' = "done"
                  /\ ~AdaptiveCalled
                  /\ UNCHANGED <<index, gindex, job, attrs, sweeping, params, record>>
             ELSE pc' = "pass_begin"]_vars
    /\ [](~Quiescent =>
             \A i \in 1..(Len(results) - 1) : DOMAIN results[i].values # {})

\* ------------------------------------------------------------ C30
\* a record as prepare_record makes it: bound, without rows, with the job's columns
NewRecord(rec) == rec.bound /\ rec.rows = <<>> /\ rec.columns = Columns

\* C30: prepare_record without rebuild leaves a bound record and its rows as
\* they are, so that repeating the call changes nothing; prepare_record with
\* rebuild, or with no record bound, binds a new record that has no rows and
\* has the columns of the job.  Neither changes anything else of the job.
C30_PrepareRecordLazy ==
    [][/\ op' = "prepare_record" =>
             /\ record.bound => record' = record
             /\ ~record.bound => NewRecord(record')
       /\ op' = "prepare_record(rebuild)" => NewRecord(record')
       /\ op' \in {"prepare_record", "prepare_record(rebuild)"} =>
             UNCHANGED <<config, outside, index, gindex, sweeping, job, attrs, params, now, pc,
                         local, result, results, advances, passes, rows0, runs, calls>>]_vars

C30_Witness ==
    /\ op = "prepare_record"
    /\ record.bound
    /\ Len(record.rows) >= 2
    /\ pc = "done"
    /\ runs = 1

\* ------------------------------------------------------------ C31
\* the bindings an argument of the given names stands for: every parameter
\* under its name
GetterPairs(names) == [i \in 1..Len(names) |-> <<names[i], names[i]>>]

SetterTriples(names, vals) ==
    [i \in 1..Len(names) |-> <<names[i], names[i], InitialValue(names[i], vals)>>]

\* C31: whatever the shape of the setters and getters arguments of a Scanner
\* (a sequence of parameters, a sequence of pairs, a mapping), evaluating them
\* raises nothing and gives one triple per setter and one pair per getter, in
\* the order given, as a sequence the AtomJob constructor goes through.
C31_ParseAcceptsAllShapes ==
    (new.class = "Scanner" /\ Len(new.args.values) > 0 /\ new.stage # "called") =>
        /\ new.raised # "TypeError"
        /\ new.setters = SetterTriples(new.args.setters.names, new.args.values[1])
        /\ new.getters.sequence
        /\ new.getters.pairs = GetterPairs(new.args.getters.names)

\* ------------------------------------------------------------ C32
\* C32: no adaptive() call of a GridScanner raises: each call made with the
\* carry-out digit at 0 returns a combination, the call that builds the last
\* combination included, and leaves the carry-out digit at 0 or 1.
C32_GridAdaptiveNeverRaises ==
    kind = "GridScanner" =>
        /\ \A i \in DOMAIN results : ~results[i].raised
        /\ Carry \in {0, 1}
        /\ pc # "error"

\* ------------------------------------------------------------ C33
\* a GridScanner call with a valid grid, setters given as a sequence of
\* parameters and no getter
ValidGridCall ==
    /\ new.class = "GridScanner"
    /\ CheckGrid(new.args.grid)
    /\ new.args.setters.shape = "list"
    /\ Len(new.args.setters.names) > 0
    /\ Len(new.args.getters.names) = 0

\* C33: such a call ends by returning the job, with every setter that is an
\* axis of the grid at the first candidate of its axis, the shape the lengths
\* of the axes, and a position vector of one digit per axis and one more, all 0.
C33_ValidGridConstructs ==
    (ValidGridCall /\ Ended) =>
        /\ new.stage = "built"
        /\ grid = new.args.grid
        /\ shape = AxisLens(new.args.grid)
        /\ gindex = [a \in 1..(Len(new.args.grid) + 1) |-> 0]
        /\ \A k \in DOMAIN attrs \cap DOMAIN FirstCandidates(new.args.grid) :
              attrs[k] = FirstCandidates(new.args.grid)[k]

\* ------------------------------------------------------------ C34
\* a Counter call with getters given as a non-empty sequence and a positive
\* integer times
ValidCounterCall ==
    /\ new.class = "Counter"
    /\ new.args.getters.shape \in {"list", "pairs"}
    /\ Len(new.args.getters.names) > 0
    /\ new.args.times.type = "int" /\ new.args.times.v >= 1

\* C34: such a call ends by returning the job, whose child has no setter,
\* one getter per binding, bound to the binding's own parameter, and one
\* column per getter after timestamp.
C34_GetterOnlyJobConstructs ==
    (ValidCounterCall /\ Ended) =>
        /\ new.stage = "built"
        /\ attrs = Empty
        /\ getters = [k \in {new.args.getters.names[i] : i \in 1..Len(new.args.getters.names)} |-> k]
        /\ new.columns = <<"timestamp">> \o new.args.getters.names

\* ------------------------------------------------------------ C35
\* C35: every run that is started ends after finitely many child passes with
\* advance returning false.
C35_RunTerminates == (~Quiescent) ~> RunDone

\* ------------------------------------------------------------ C36
\* C36: sweeping goes from true to false in a reset_sweep only; the end of a
\* run leaves it as it is.  As long as it is true, within a run or after it,
\* an assignment to values or grid raises nothing and changes neither the
\* sequence stored nor the shape nor the cursor.
C36_SweepingOutlivesRun ==
    /\ [][(sweeping /\ ~sweeping') => op' = "reset_sweep"]_vars
    /\ [][(sweeping /\ (Assigned("values") \/ Assigned("grid"))) =>
             /\ outside'.raised = ""
             /\ UNCHANGED <<values, grid, shape, index, gindex>>]_vars

C36_Witness ==
    /\ RunDone
    /\ sweeping
    /\ op = "values"
    /\ Len(outside.value) > 0
    /\ values # outside.value
    /\ index = Len(values)

C36_WitnessGrid ==
    /\ Quiescent
    /\ sweeping
    /\ op = "grid"
    /\ CheckGrid(outside.value)
    /\ outside.raised = ""

\* ------------------------------------------------------------ C37
\* the values written to the Counter attribute times
AssignedTimes == {0, 1, MaxTimes}

\* counter.times(t): the attribute added with ValInt(1) keeps a value its
\* validator accepts; ValInt.validate raises ValueError below the minimum
SetTimes ==
    /\ kind = "Counter"
    /\ Yielded
    /\ outside.n < MaxOutside
    /\ \E t \in AssignedTimes :
          /\ times' = IF t >= 1 THEN t ELSE times
          /\ outside' = [n |-> outside.n + 1, property |-> "times", value |-> t,
                         raised |-> IF t >= 1 THEN "" ELSE "ValueError"]
    /\ op' = "times"
    /\ UNCHANGED <<kind, t0, delay_begin, delay_after_set, delay_gap, delay_end,
                   getters, new, values, grid, shape, index, gindex, record, running>>

NextTimes ==
    \/ NextAssign
    \/ SetTimes

SpecTimes == InitFew /\ [][NextTimes]_vars

\* the cursor of each strategy within the bounds of what it walks over
CounterInRange == index \in 0..times

ScannerInRange == index \in 0..Len(values)

GridInRange ==
    /\ Len(gindex) = Len(grid) + 1
    /\ Len(shape) = Len(grid)
    /\ \A a \in 1..Len(grid) :
          /\ gindex[a] \in 0..(shape[a] - 1)
          /\ shape[a] = Len(grid[a][2])
    /\ gindex[Len(gindex)] \in {0, 1}

\* C37: in every state reached by reset, adaptive, assignments to values and
\* grid and writes of times, the Counter has 0 <= index <= times, the Scanner
\* has 0 <= index <= len(values), and the GridScanner has len(grid) + 1
\* digits, each axis digit below its shape entry, each shape entry the length
\* of its axis in the grid stored, and a carry-out digit of 0 or 1.
C37_CursorInRange ==
    /\ kind = "Counter" => CounterInRange
    /\ kind = "Scanner" => ScannerInRange
    /\ kind = "GridScanner" => GridInRange

\* ------------------------------------------------------------ C38
\* adaptive() of the job at hand on a given cursor
AdaptiveAt(i, gi) ==
    CASE kind = "Counter" ->
            LET r == CounterAdaptive(i, times)
            IN [index |-> r.index, gindex |-> gi, values |-> r.values, raised |-> r.raised]
      [] kind = "Scanner" ->
            LET r == ScannerAdaptive(i, values)
            IN [index |-> r.index, gindex |-> gi, values |-> r.values, raised |-> r.raised]
      [] kind = "GridScanner" ->
            LET r == GridAdaptive(gi, grid, shape)
            IN [index |-> i, gindex |-> r.index, values |-> r.values, raised |-> r.raised]

\* what the adaptive() calls of a run return when the run starts on the given
\* cursor: the calls up to the first that returns an empty mapping or raises
RECURSIVE RunResults(_, _)
RunResults(i, gi) ==
    LET r == AdaptiveAt(i, gi)
        out == [raised |-> r.raised, values |-> r.values]
    IN IF r.raised \/ DOMAIN r.values = {}
       THEN <<out>>
       ELSE <<out>> \o RunResults(r.index, r.gindex)

\* the adaptive() results of a run of the job as it is configured, from the
\* cursor reset_sweep leaves
FreshResults == RunResults(ScalarReset, GridReset(gindex))

\* the child's configuration in pass k of such a run: the first pass and the
\* one after the first productive advance wait delay_begin, the later
\* productive ones delay_gap, and the pass after the empty mapping is the dry
\* run with delay_end
FreshPass(k) ==
    IF k <= Len(FreshResults)
    THEN [delay_begin |-> IF k <= 2 THEN delay_begin ELSE delay_gap,
          delay_end |-> 0,
          is_dryrun |-> FALSE]
    ELSE [delay_begin |-> 0, delay_end |-> delay_end, is_dryrun |-> TRUE]

\* passes of such a run: one before each adaptive() call and, unless the last
\* call raised, the dry run after it
FreshPasses ==
    IF FreshResults[Len(FreshResults)].raised
    THEN Len(FreshResults)
    ELSE Len(FreshResults) + 1

PassConfig(q) ==
    [delay_begin |-> q.delay_begin, delay_end |-> q.delay_end, is_dryrun |-> q.is_dryrun]

\* the run has just ended, by advance returning false or raising
RunJustEnded == pc \in {"done", "error"} /\ op = "perform_sweep"

\* C38: a run of a job gives what a run of the job as it is configured gives
\* from the reset cursor, whichever run it is and whatever was called before
\* it: the same adaptive() results in the same order, the same delay_begin,
\* delay_end and is_dryrun of the child in each pass, and one row for each
\* pass that is not the dry run when a record is bound.  The second of two
\* runs therefore repeats the first.
C38_RunsRepeat ==
    RunJustEnded =>
        /\ results = FreshResults
        /\ Len(passes) = FreshPasses
        /\ \A k \in DOMAIN passes : PassConfig(passes[k]) = FreshPass(k)
        /\ RowsAppended = IF record.bound THEN Len(FreshResults) ELSE 0

C38_Witness ==
    /\ RunJustDone
    /\ runs = 2
    /\ calls > 0
    /\ record.bound
    /\ delay_gap # delay_begin
    /\ Len(passes) >= 4
    /\ RowsAppended >= 3
    /\ rows0 = RowsAppended

\* ------------------------------------------------------------ C39
\* the delay argument is a number that is not negative
NumericDelay(d) == d.type \in {"int", "float"} /\ d.v >= 0

\* C39: once the constructor has made the sweep job's delay attributes, a
\* delay argument that is a non-negative number, integer or float, is the
\* value of delay_begin, delay_gap and delay_end; any other argument leaves 0.
C39_IntegerDelayStored ==
    "attributes" \in new.created =>
        LET d == new.args.delay
            v == IF NumericDelay(d) THEN d.v ELSE 0
        IN delay_begin = v /\ delay_gap = v /\ delay_end = v

====
